---- MODULE Spec2Model ----
(***************************************************************************)
(* Braids (src/braid.js): a group of extended public keys plus the         *)
(* multisig information (network, address type, quorum, branch index)      *)
(* that defines one branch of a multisig wallet.                           *)
(*                                                                         *)
(* JavaScript values are modelled as tagged records:                       *)
(*   undefined, null, numbers, opaque strings (network names, base58       *)
(*   keys), character strings (BIP32 paths and indices, as sequences of    *)
(*   one-character strings), hex strings (public keys and fingerprints, as *)
(*   sequences of nibbles), Buffers (sequences of bytes), arrays, objects. *)
(* An object is a function from its own property names to values; a        *)
(* property that was never assigned is not in the domain.                  *)
(***************************************************************************)
EXTENDS Integers, Sequences, FiniteSets, TLC

VARIABLES braid, last

vars == <<braid, last>>

(***************************************************************************)
(* Bounds of the model.                                                    *)
(***************************************************************************)
MaxXpubs == 2
MaxChildIndex == 2

(***************************************************************************)
(* JavaScript values.                                                      *)
(***************************************************************************)
Undefined == [t |-> "undefined"]
Null == [t |-> "null"]
Num(n) == [t |-> "number", n |-> n]
Str(s) == [t |-> "string", s |-> s]
Txt(c) == [t |-> "string", c |-> c]
Hex(h) == [t |-> "string", h |-> h]
Buf(b) == [t |-> "buffer", b |-> b]
Arr(a) == [t |-> "array", a |-> a]
Obj(o) == [t |-> "object", o |-> o]

EmptyObject == <<>>

\* typeof v
TypeOf(v) == v.t

\* v[f] for a property name f: a missing property, and any property of a
\* primitive string, reads as undefined.
Get(v, f) ==
  IF v.t = "object" /\ f \in DOMAIN v.o THEN v.o[f] ELSE Undefined

\* obj[f] on the bare property map of an object
Field(o, f) == IF f \in DOMAIN o THEN o[f] ELSE Undefined

\* Truthiness of the values that occur as root fingerprints.
Truthy(v) ==
  CASE v.t = "undefined" -> FALSE
    [] v.t = "null" -> FALSE
    [] v.t = "string" /\ "h" \in DOMAIN v -> v.h # <<>>
    [] v.t = "string" /\ "c" \in DOMAIN v -> v.c # <<>>
    [] v.t = "string" /\ "s" \in DOMAIN v -> v.s # ""
    [] OTHER -> TRUE

(***************************************************************************)
(* Character strings.                                                      *)
(***************************************************************************)
DigitChars == <<"0", "1", "2", "3", "4", "5", "6", "7", "8", "9">>

IsDigit(ch) == \E i \in 1..10 : DigitChars[i] = ch

DigitVal(ch) == (CHOOSE i \in 1..10 : DigitChars[i] = ch) - 1

UndefinedChars == <<"u", "n", "d", "e", "f", "i", "n", "e", "d">>

\* s.startsWith(p)
StartsWith(s, p) == Len(s) >= Len(p) /\ SubSeq(s, 1, Len(p)) = p

\* s.slice(n)
Slice(s, n) == SubSeq(s, n + 1, Len(s))

RECURSIVE SplitFrom(_, _, _)
SplitFrom(s, cur, acc) ==
  IF s = <<>> THEN Append(acc, cur)
  ELSE IF Head(s) = "/" THEN SplitFrom(Tail(s), <<>>, Append(acc, cur))
  ELSE SplitFrom(Tail(s), Append(cur, Head(s)), acc)

\* s.split("/")
Split(s) == SplitFrom(s, <<>>, <<>>)

\* String(v) as used by the + operator on strings
ToChars(v) ==
  IF v.t = "string" /\ "c" \in DOMAIN v THEN v.c ELSE UndefinedChars

(***************************************************************************)
(* Numbers that are BIP32 indices: canonical decimal digit sequences, so   *)
(* that the hardening offset 2^31 needs no machine integer.                *)
(***************************************************************************)
NaN == <<-1>>

RECURSIVE StripZeros(_)
StripZeros(d) ==
  IF Len(d) > 1 /\ Head(d) = 0 THEN StripZeros(Tail(d)) ELSE d

\* parseInt(s, 10) of a string of decimal digits
ParseInt(s) ==
  IF s = <<>> \/ \E i \in 1..Len(s) : ~IsDigit(s[i]) THEN NaN
  ELSE StripZeros([i \in 1..Len(s) |-> DigitVal(s[i])])

HARDENING_OFFSET == <<2, 1, 4, 7, 4, 8, 3, 6, 4, 8>>

RECURSIVE AddRev(_, _, _)
AddRev(a, b, carry) ==
  IF a = <<>> /\ b = <<>> THEN (IF carry = 0 THEN <<>> ELSE <<carry>>)
  ELSE LET x == IF a = <<>> THEN 0 ELSE Head(a)
           y == IF b = <<>> THEN 0 ELSE Head(b)
           ta == IF a = <<>> THEN <<>> ELSE Tail(a)
           tb == IF b = <<>> THEN <<>> ELSE Tail(b)
           sum == x + y + carry
       IN <<sum % 10>> \o AddRev(ta, tb, sum \div 10)

Reverse(s) == [i \in 1..Len(s) |-> s[Len(s) + 1 - i]]

\* a + b on digit sequences
Add(a, b) ==
  IF a = NaN \/ b = NaN THEN NaN
  ELSE Reverse(AddRev(Reverse(a), Reverse(b), 0))

\* Number.prototype.toString()
NumToString(d) ==
  IF d = NaN THEN <<"N", "a", "N">>
  ELSE [i \in 1..Len(d) |-> DigitChars[d[i] + 1]]

(***************************************************************************)
(* Path Service (./paths).                                                 *)
(***************************************************************************)
\* One index token: decimal digits with an optional hardening mark.
ValidSegment(seg) ==
  LET body == IF seg # <<>> /\ seg[Len(seg)] = "'"
              THEN SubSeq(seg, 1, Len(seg) - 1) ELSE seg
  IN body # <<>> /\ \A i \in 1..Len(body) : IsDigit(body[i])

\* validateBIP32Path(path): the violation message, "" when the path is valid.
\* Accepted forms: bare relative ("0/5"), "/"-prefixed, "m/"-prefixed.
validateBIP32Path(path) ==
  IF path = <<>> THEN "BIP32 path cannot be blank."
  ELSE LET body == IF StartsWith(path, <<"m", "/">>) THEN Slice(path, 2)
                   ELSE IF StartsWith(path, <<"/">>) THEN Slice(path, 1)
                   ELSE path
           segs == Split(body)
       IN IF \A i \in 1..Len(segs) : ValidSegment(segs[i])
          THEN "" ELSE "BIP32 path is invalid."

\* validateBIP32Index(index, {mode: "unhardened"}): the violation message.
\* A valid index is the string form of a single non-negative index.
validateBIP32Index(index) ==
  IF index.t \in {"undefined", "null"} THEN "BIP32 index cannot be blank."
  ELSE IF ~(index.t = "string" /\ "c" \in DOMAIN index)
       THEN "BIP32 index is invalid."
  ELSE IF index.c = <<>> THEN "BIP32 index cannot be blank."
  ELSE IF ~ValidSegment(index.c) THEN "BIP32 index is invalid."
  ELSE IF index.c[Len(index.c)] = "'" THEN "BIP32 index cannot be hardened."
  ELSE IF NumToString(ParseInt(index.c)) # index.c
       THEN "BIP32 index is invalid."
  ELSE ""

\* One token of a path as a number.
SegmentToNumber(seg) ==
  IF seg # <<>> /\ seg[Len(seg)] = "'"
  THEN Add(ParseInt(SubSeq(seg, 1, Len(seg) - 1)), HARDENING_OFFSET)
  ELSE ParseInt(seg)

\* bip32PathToSequence(pathString): splits on "/" and blindly drops the
\* first piece (braid.js:172-174).
bip32PathToSequence(pathString) ==
  LET segs == Tail(Split(pathString))
  IN [i \in 1..Len(segs) |-> SegmentToNumber(segs[i])]

(***************************************************************************)
(* Static configuration (./networks, ./multisig).                          *)
(***************************************************************************)
NETWORKS == {Str("mainnet"), Str("testnet")}

MULTISIG_ADDRESS_TYPES == {Str("P2SH"), Str("P2SH-P2WSH"), Str("P2WSH")}

(***************************************************************************)
(* Key-Derivation Service (./keys).  The fixture keys of the model.        *)
(***************************************************************************)
KeyNetwork ==
  [k \in {"tpubA", "tpubB", "tpubC", "xpubD"} |->
     IF k = "xpubD" THEN Str("mainnet") ELSE Str("testnet")]

KeyId ==
  [k \in {"tpubA", "tpubB", "tpubC", "xpubD"} |->
     CASE k = "tpubA" -> 1 [] k = "tpubB" -> 2 [] k = "tpubC" -> 3
       [] k = "xpubD" -> 4]

\* validateExtendedPublicKey(base58, network): the violation message.
validateExtendedPublicKey(base58, network) ==
  IF ~(base58.t = "string" /\ "s" \in DOMAIN base58)
  THEN "Extended public key cannot be blank."
  ELSE IF base58.s \notin DOMAIN KeyNetwork
  THEN "Invalid extended public key."
  ELSE IF KeyNetwork[base58.s] # network
  THEN "Extended public key does not match the network."
  ELSE ""

\* The path argument as the key service reads it: relative to the key.
RelativeSegments(path) ==
  LET body == IF StartsWith(path, <<"m", "/">>) THEN Slice(path, 2)
              ELSE IF StartsWith(path, <<"/">>) THEN Slice(path, 1)
              ELSE path
  IN Split(body)

\* A public key cannot be derived through a hardened index.
CanDerive(path) ==
  LET segs == RelativeSegments(path)
  IN \A i \in 1..Len(segs) : segs[i] # <<>> /\ segs[i][Len(segs[i])] # "'"

RECURSIVE DigitSum(_)
DigitSum(d) == IF d = <<>> THEN 0 ELSE Head(d) + DigitSum(Tail(d))

\* deriveChildPublicKey(base58, path, network): the child key as a hex
\* string, a deterministic function of the key and the path.  Distinct
\* keys derive distinct children; the order of the children of two keys
\* depends on the path.
deriveChildPublicKey(base58, path, network) ==
  LET segs == RelativeSegments(path)
      c == DigitSum(ParseInt(segs[Len(segs)]))
      k == KeyId[base58.s]
  IN Hex(<<0, 2 + ((k + c) % 2), 0, k>>)

\* extendedPublicKeyRootFingerprint(xpub): the root fingerprint if known.
extendedPublicKeyRootFingerprint(xpub) ==
  IF Truthy(Get(xpub, "rootFingerprint"))
  THEN Get(xpub, "rootFingerprint") ELSE Null

\* Buffer.from(hex, "hex"): one byte per pair of nibbles.
BufferFromHex(hex) ==
  Buf([i \in 1..(Len(hex.h) \div 2) |-> 16 * hex.h[2 * i - 1] + hex.h[2 * i]])

(***************************************************************************)
(* Multisig-Assembly Service (./multisig).                                 *)
(***************************************************************************)
\* generateMultisigFromPublicKeys(network, addressType, requiredSigners,
\* ...publicKeys): fails on a quorum larger than the key list.
MultisigAssemblyFails(requiredSigners, pubkeys) ==
  requiredSigners.n > Len(pubkeys)

generateMultisigFromPublicKeys(network, addressType, requiredSigners, pubkeys) ==
  [network |-> network, addressType |-> addressType,
   requiredSigners |-> requiredSigners, publicKeys |-> Arr(pubkeys)]

(***************************************************************************)
(* braid.js                                                                *)
(***************************************************************************)
FAKE_ROOT_FINGERPRINT == Hex(<<0, 0, 0, 0, 0, 0, 0, 0>>)

BraidFields ==
  {"addressType", "network", "extendedPublicKeys", "requiredSigners",
   "index", "sequence"}

ConfigKeys ==
  {"network", "addressType", "extendedPublicKeys", "requiredSigners", "index"}

Throw(e) == [ok |-> FALSE, obj |-> EmptyObject, error |-> e]

\* !options || !Object.keys(options).length
IsEmptyOptions(options) ==
  \/ options.t \in {"undefined", "null"}
  \/ options.t = "object" /\ DOMAIN options.o = {}

\* The base58 string of a handle that is a plain string or a struct.
Base58Of(xpub) ==
  IF TypeOf(xpub) = "string" THEN xpub ELSE Get(xpub, "base58String")

\* every xpub passes validateExtendedPublicKey for the network
XpubsValid(xpubs, network) ==
  \A i \in 1..Len(xpubs.a) :
     validateExtendedPublicKey(Base58Of(xpubs.a[i]), network) = ""

\* Variant: the bound is off by one.
QuorumAccepted_OffByOne(requiredSigners, xpubs) ==
  requiredSigners.n <= Len(xpubs.a) + 1

\* options.requiredSigners <= this.extendedPublicKeys.length
QuorumAccepted(requiredSigners, xpubs) ==
  requiredSigners.n <= Len(xpubs.a)

\* new Braid(options)
BraidConstructor(options) ==
  IF IsEmptyOptions(options)
  THEN [ok |-> TRUE, obj |-> EmptyObject, error |-> ""]
  ELSE
    LET addressType == Get(options, "addressType")
        network == Get(options, "network")
        xpubs == Get(options, "extendedPublicKeys")
        requiredSigners == Get(options, "requiredSigners")
        index == Get(options, "index")
    IN IF addressType \notin MULTISIG_ADDRESS_TYPES
       THEN Throw("Expected addressType to be one of the address types")
       ELSE IF network \notin NETWORKS
       THEN Throw("Expected network to be one of the networks")
       ELSE IF xpubs.t # "array"
       THEN Throw("TypeError")
       ELSE IF ~XpubsValid(xpubs, network)
       THEN Throw("Invalid extended public key")
       ELSE IF TypeOf(requiredSigners) # "number"
       THEN Throw("AssertionError")
       ELSE IF ~QuorumAccepted(requiredSigners, xpubs)
       THEN Throw("Can't have more requiredSigners than there are keys.")
       ELSE IF validateBIP32Index(index) # ""
       THEN Throw(validateBIP32Index(index))
       ELSE [ok |-> TRUE, error |-> "",
             obj |-> [addressType |-> addressType,
                      network |-> network,
                      extendedPublicKeys |-> xpubs,
                      requiredSigners |-> requiredSigners,
                      index |-> index,
                      sequence |-> Arr(bip32PathToSequence(index.c))]]

\* generateBraid(network, addressType, extendedPublicKeys, requiredSigners, index)
generateBraid(network, addressType, extendedPublicKeys, requiredSigners, index) ==
  BraidConstructor(Obj([network |-> network,
                        addressType |-> addressType,
                        extendedPublicKeys |-> extendedPublicKeys,
                        requiredSigners |-> requiredSigners,
                        index |-> index]))

\* The value JSON.stringify writes for v: properties whose value is
\* undefined are left out, undefined array elements become null.
RECURSIVE JSONValue(_)
JSONValue(v) ==
  CASE v.t = "object" ->
         Obj([k \in {f \in DOMAIN v.o : v.o[f].t # "undefined"} |->
                JSONValue(v.o[k])])
    [] v.t = "array" ->
         Arr([i \in 1..Len(v.a) |->
                IF v.a[i].t = "undefined" THEN Null ELSE JSONValue(v.a[i])])
    [] OTHER -> v

\* JSON.stringify(v) and JSON.parse(text): the text is the written value.
JSONStringify(v) == [t |-> "string", json |-> JSONValue(v)]

JSONParse(text) == text.json

braidNetwork(b) == Field(b, "network")

braidAddressType(b) == Field(b, "addressType")

braidExtendedPublicKeys(b) == Field(b, "extendedPublicKeys")

braidRequiredSigners(b) == Field(b, "requiredSigners")

braidIndex(b) == Field(b, "index")

\* Variant: the snapshot leaves out the index.
braidConfig_WithoutIndex(b) ==
  JSONStringify(Obj([network |-> Field(b, "network"),
                     addressType |-> Field(b, "addressType"),
                     extendedPublicKeys |-> Field(b, "extendedPublicKeys"),
                     requiredSigners |-> Field(b, "requiredSigners")]))

\* braidConfig(braid), also Braid.toJSON()
braidConfig(b) ==
  JSONStringify(Obj([network |-> Field(b, "network"),
                     addressType |-> Field(b, "addressType"),
                     extendedPublicKeys |-> Field(b, "extendedPublicKeys"),
                     requiredSigners |-> Field(b, "requiredSigners"),
                     index |-> Field(b, "index")]))

\* Braid.fromJSON(string)
BraidFromJSON(string) == BraidConstructor(JSONParse(string))

(***************************************************************************)
(* Derivation.  Every operation returns its outcome together with the      *)
(* calls it made to the external services, in order.                       *)
(***************************************************************************)
BranchError == "Cannot derive paths outside of the braid's index"

UpstreamError == "Unable to derive child public key"

\* Variant: the path is handed to bip32PathToSequence as it came.
PathToCheck_NoPrepend(path) == path

\* path.startsWith("m/") || path.startsWith("/") ? path : "/" + path
PathToCheck(path) ==
  IF StartsWith(path, <<"m", "/">>) \/ StartsWith(path, <<"/">>)
  THEN path ELSE <<"/">> \o path

\* validateBip32PathForBraid(braid, path): "" or the message of the
\* assertion that fired.
validateBip32PathForBraid(b, path) ==
  LET pathError == validateBIP32Path(path)
  IN IF pathError # "" THEN pathError
     ELSE LET pathSequence == bip32PathToSequence(PathToCheck(path))
          IN IF pathSequence = <<>> THEN "TypeError"
             ELSE IF Txt(NumToString(pathSequence[1])) = braidIndex(b)
             THEN "" ELSE BranchError

ValidatorReturned == "validateBip32PathForBraid returned"

\* The path-service calls of validateBip32PathForBraid, closed by its
\* return when no assertion fired.
ValidationCalls(b, path) ==
  IF validateBIP32Path(path) # "" THEN <<"validateBIP32Path">>
  ELSE IF validateBip32PathForBraid(b, path) # ""
  THEN <<"validateBIP32Path", "bip32PathToSequence">>
  ELSE <<"validateBIP32Path", "bip32PathToSequence", ValidatorReturned>>

\* path.startsWith("m/") ? path.slice(2) : path
ActualPathSuffix(path) ==
  IF StartsWith(path, <<"m", "/">>) THEN Slice(path, 2) ELSE path

\* xpub.path + "/" + actualPathSuffix
CompletePath(xpub, path) ==
  Txt(ToChars(Get(xpub, "path")) \o <<"/">> \o ActualPathSuffix(path))

\* Variant: the fallback is used for every xpub.
MasterFingerprint_AlwaysFake(xpub) == FAKE_ROOT_FINGERPRINT

\* rootFingerprint ? rootFingerprint : FAKE_ROOT_FINGERPRINT
MasterFingerprint(xpub) ==
  LET rootFingerprint == extendedPublicKeyRootFingerprint(xpub)
  IN IF Truthy(rootFingerprint) THEN rootFingerprint
     ELSE FAKE_ROOT_FINGERPRINT

\* The property the loop body assigns for one xpub.
PubKeyObject(b, xpub, path) ==
  LET pubkey == deriveChildPublicKey(Base58Of(xpub), path, braidNetwork(b))
  IN [k |-> pubkey,
      v |-> [masterFingerprint |-> BufferFromHex(MasterFingerprint(xpub)),
             path |-> CompletePath(xpub, path),
             pubkey |-> BufferFromHex(pubkey)]]

\* obj[k] = v on an object whose own string keys keep insertion order:
\* an existing key keeps its place and takes the new value.
Assign(entries, e) ==
  IF \E i \in 1..Len(entries) : entries[i].k = e.k
  THEN [i \in 1..Len(entries) |->
          IF entries[i].k = e.k THEN e ELSE entries[i]]
  ELSE Append(entries, e)

RECURSIVE ForEachXpub(_, _, _, _)
ForEachXpub(b, xpubs, path, entries) ==
  IF xpubs = <<>> THEN entries
  ELSE ForEachXpub(b, Tail(xpubs), path,
                   Assign(entries, PubKeyObject(b, Head(xpubs), path)))

\* The key-service calls of the forEach loop.
RECURSIVE DerivationCalls(_)
DerivationCalls(n) ==
  IF n = 0 THEN <<>>
  ELSE <<"deriveChildPublicKey", "extendedPublicKeyRootFingerprint">>
       \o DerivationCalls(n - 1)

\* Variant: the loop runs before the path is validated.
derivePublicKeyObjectsAtPath_DeriveFirst(b, path) ==
  LET pathError == validateBip32PathForBraid(b, path)
      xpubs == IF braidExtendedPublicKeys(b).t = "array"
               THEN braidExtendedPublicKeys(b).a ELSE <<>>
      derivable == validateBIP32Path(path) = "" /\ CanDerive(path)
  IN IF xpubs # <<>> /\ ~derivable
     THEN [ok |-> FALSE, error |-> UpstreamError, entries |-> <<>>,
           calls |-> <<"deriveChildPublicKey">>]
     ELSE IF pathError # ""
     THEN [ok |-> FALSE, error |-> pathError, entries |-> <<>>,
           calls |-> DerivationCalls(Len(xpubs)) \o ValidationCalls(b, path)]
     ELSE [ok |-> TRUE, error |-> "",
           entries |-> ForEachXpub(b, xpubs, path, <<>>),
           calls |-> DerivationCalls(Len(xpubs)) \o ValidationCalls(b, path)]

\* derivePublicKeyObjectsAtPath(braid, path)
derivePublicKeyObjectsAtPath(b, path) ==
  LET pathError == validateBip32PathForBraid(b, path)
  IN IF pathError # ""
     THEN [ok |-> FALSE, error |-> pathError, entries |-> <<>>,
           calls |-> ValidationCalls(b, path)]
     ELSE LET xpubs == braidExtendedPublicKeys(b).a
          IN IF xpubs # <<>> /\ ~CanDerive(path)
             THEN [ok |-> FALSE, error |-> UpstreamError, entries |-> <<>>,
                   calls |-> ValidationCalls(b, path)
                             \o <<"deriveChildPublicKey">>]
             ELSE [ok |-> TRUE, error |-> "",
                   entries |-> ForEachXpub(b, xpubs, path, <<>>),
                   calls |-> ValidationCalls(b, path)
                             \o DerivationCalls(Len(xpubs))]

\* a < b for strings of hex digits, by code unit
RECURSIVE LexLess(_, _)
LexLess(a, b) ==
  IF b = <<>> THEN FALSE
  ELSE IF a = <<>> THEN TRUE
  ELSE IF Head(a) # Head(b) THEN Head(a) < Head(b)
  ELSE LexLess(Tail(a), Tail(b))

RECURSIVE InsertSorted(_, _)
InsertSorted(sorted, x) ==
  IF sorted = <<>> THEN <<x>>
  ELSE IF LexLess(x.h, Head(sorted).h) THEN <<x>> \o sorted
  ELSE <<Head(sorted)>> \o InsertSorted(Tail(sorted), x)

\* Array.prototype.sort() with the default comparison
RECURSIVE Sort(_)
Sort(a) ==
  IF a = <<>> THEN <<>> ELSE InsertSorted(Sort(Tail(a)), Head(a))

\* Object.keys(obj)
ObjectKeys(entries) == [i \in 1..Len(entries) |-> entries[i].k]

\* Object.values(obj)
ObjectValues(entries) == [i \in 1..Len(entries) |-> entries[i].v]

Failed(r) ==
  [ok |-> FALSE, error |-> r.error, value |-> Undefined, calls |-> r.calls]

\* Variant: the keys in the order the loop produced them.
generatePublicKeysAtPath_Unsorted(b, path) ==
  LET r == derivePublicKeyObjectsAtPath(b, path)
  IN IF ~r.ok THEN Failed(r)
     ELSE [ok |-> TRUE, error |-> "", calls |-> r.calls,
           value |-> Arr(ObjectKeys(r.entries))]

\* generatePublicKeysAtPath(braid, path)
generatePublicKeysAtPath(b, path) ==
  LET r == derivePublicKeyObjectsAtPath(b, path)
  IN IF ~r.ok THEN Failed(r)
     ELSE [ok |-> TRUE, error |-> "", calls |-> r.calls,
           value |-> Arr(Sort(ObjectKeys(r.entries)))]

\* generateBip32DerivationByPath(braid, path)
generateBip32DerivationByPath(b, path) ==
  LET r == derivePublicKeyObjectsAtPath(b, path)
  IN IF ~r.ok THEN Failed(r)
     ELSE [ok |-> TRUE, error |-> "", calls |-> r.calls,
           value |-> Arr(ObjectValues(r.entries))]

\* (n).toString() for a small non-negative integer n
RECURSIVE IntToChars(_)
IntToChars(n) ==
  IF n < 10 THEN <<DigitChars[n + 1]>>
  ELSE IntToChars(n \div 10) \o <<DigitChars[(n % 10) + 1]>>

\* braidIndex(braid) + "/" + index.toString()
PathToDerive(b, index) ==
  ToChars(braidIndex(b)) \o <<"/">> \o IntToChars(index)

\* generatePublicKeysAtIndex(braid, index)
generatePublicKeysAtIndex(b, index) ==
  generatePublicKeysAtPath(b, PathToDerive(b, index))

\* generateBip32DerivationByIndex(braid, index)
generateBip32DerivationByIndex(b, index) ==
  generateBip32DerivationByPath(b, PathToDerive(b, index))

\* generateBraidAwareMultisigFromPublicKeys(braid, pubkeys, bip32Derivation)
generateBraidAwareMultisigFromPublicKeys(b, pubkeys, bip32Derivation) ==
  generateMultisigFromPublicKeys(braidNetwork(b), braidAddressType(b),
                                 braidRequiredSigners(b), pubkeys.a)
    @@ [braidDetails |-> braidConfig(b), bip32Derivation |-> bip32Derivation]

\* deriveMultisigByPath(braid, path)
deriveMultisigByPath(b, path) ==
  LET pubkeys == generatePublicKeysAtPath(b, path)
      bip32Derivation == generateBip32DerivationByPath(b, path)
      calls == pubkeys.calls \o bip32Derivation.calls
                 \o <<"generateMultisigFromPublicKeys">>
  IN IF ~pubkeys.ok THEN pubkeys
     ELSE IF ~bip32Derivation.ok
     THEN [bip32Derivation EXCEPT
             !.calls = pubkeys.calls \o bip32Derivation.calls]
     ELSE IF MultisigAssemblyFails(braidRequiredSigners(b), pubkeys.value.a)
     THEN [ok |-> FALSE, error |-> "Unable to assemble multisig",
           value |-> Undefined, calls |-> calls]
     ELSE [ok |-> TRUE, error |-> "", calls |-> calls,
           value |-> Obj(generateBraidAwareMultisigFromPublicKeys(
                           b, pubkeys.value, bip32Derivation.value))]

\* deriveMultisigByIndex(braid, index)
deriveMultisigByIndex(b, index) ==
  deriveMultisigByPath(b, PathToDerive(b, index))

(***************************************************************************)
(* Inputs of the model.                                                    *)
(***************************************************************************)
BasePathA == <<"m", "/", "4", "5", "'">>

BasePathB == <<"m", "/", "4", "8", "'", "/", "1", "'">>

\* A struct with a known root fingerprint.
XpubA ==
  Obj([base58String |-> Str("tpubA"), path |-> Txt(BasePathA),
       rootFingerprint |-> Hex(<<15, 5, 7, 14, 12, 6, 5, 13>>)])

\* A struct whose root fingerprint is not known.
XpubB ==
  Obj([base58String |-> Str("tpubB"), path |-> Txt(BasePathB),
       rootFingerprint |-> Undefined])

\* A plain base58 string.
XpubC == Str("tpubC")

\* A mainnet struct whose root fingerprint is known and is 00000000.
XpubD ==
  Obj([base58String |-> Str("xpubD"), path |-> Txt(BasePathA),
       rootFingerprint |-> Hex(<<0, 0, 0, 0, 0, 0, 0, 0>>)])

Xpubs == {XpubA, XpubB, XpubC, XpubD}

XpubLists == UNION {[1..n -> Xpubs] : n \in 0..MaxXpubs}

NetworkInputs == {Str("mainnet"), Str("testnet"), Str("regtest")}

AddressTypeInputs == {Str("P2WSH"), Str("P2PKH")}

RequiredSignersInputs == {Num(n) : n \in 0..(MaxXpubs + 1)}

IndexInputs == {Txt(<<"0">>), Txt(<<"1">>), Txt(<<"1", "'">>), Txt(<<>>)}

ChildIndexes == 0..MaxChildIndex

Paths ==
  { <<"0", "/", "1">>,
    <<"0", "/", "5">>,
    <<"1", "/", "0">>,
    <<"/", "0", "/", "1">>,
    <<"m", "/", "0", "/", "1">>,
    <<"0">>,
    <<"0", "0", "/", "1">>,
    <<"0", "/", "1", "'">>,
    <<"0", "'", "/", "1">>,
    <<>> }

NoInput == Undefined

Result(op, input, r, empty) ==
  [op |-> op, input |-> input, ok |-> r.ok, error |-> r.error,
   value |-> r.value, calls |-> r.calls, empty |-> empty]

ConstructionResult(op, r, empty) ==
  [op |-> op, input |-> NoInput, ok |-> r.ok, error |-> r.error,
   value |-> Undefined, calls |-> <<>>, empty |-> empty]

(***************************************************************************)
(* The state: the braid the caller holds (made is false until a            *)
(* construction has returned one) and the outcome of the last operation.   *)
(*                                                                         *)
(* A run is one session of a caller: it builds a braid, may write a        *)
(* snapshot and rebuild the braid from it any number of times, and makes   *)
(* one read.  A failed construction ends the session.  No operation reads  *)
(* the outcome of an earlier read and no read assigns the braid, so        *)
(* further reads in a session reach no state that one read does not.       *)
(***************************************************************************)
\* Nothing has been called yet.
Fresh == ~braid.made /\ last.op = "none"

\* The caller holds a braid that a construction has just returned or kept.
Built == braid.made /\ last.op \in {"Braid", "generateBraid", "fromJSON"}

Init ==
  /\ braid = [made |-> FALSE, o |-> EmptyObject]
  /\ last = [op |-> "none", input |-> NoInput, ok |-> TRUE, error |-> "",
             value |-> Undefined, calls |-> <<>>, empty |-> FALSE]

Constructed(op, r, empty) ==
  /\ braid' = IF r.ok THEN [made |-> TRUE, o |-> r.obj] ELSE braid
  /\ last' = ConstructionResult(op, r, empty)

\* new Braid(options), Braid.fromData(data)
NewBraid ==
  /\ Fresh
  /\ \E options \in
        {Undefined, Obj(EmptyObject)} \cup
        {Obj([network |-> n, addressType |-> a, extendedPublicKeys |-> Arr(x),
              requiredSigners |-> q, index |-> i]) :
           n \in NetworkInputs, a \in AddressTypeInputs, x \in XpubLists,
           q \in RequiredSignersInputs, i \in IndexInputs} :
        Constructed("Braid", BraidConstructor(options), IsEmptyOptions(options))

\* generateBraid(network, addressType, extendedPublicKeys, requiredSigners, index)
GenerateBraid ==
  /\ Fresh
  /\ \E n \in {Str("testnet"), Undefined},
        a \in {Str("P2WSH"), Undefined},
        x \in {Arr(l) : l \in XpubLists} \cup {Undefined},
        q \in RequiredSignersInputs \cup {Undefined},
        i \in {Txt(<<"0">>), Txt(<<"1">>), Undefined} :
        Constructed("generateBraid", generateBraid(n, a, x, q, i), FALSE)

\* braid.toJSON(), braidConfig(braid)
ToJSON ==
  /\ Built
  /\ last' = [op |-> "toJSON", input |-> NoInput, ok |-> TRUE, error |-> "",
              value |-> braidConfig(braid.o), calls |-> <<>>, empty |-> FALSE]
  /\ UNCHANGED braid

\* A snapshot edited by hand: the quorum raised above the number of keys,
\* or the index removed.
EditedSnapshots(text) ==
  IF text.json.t # "object" \/ ConfigKeys \ DOMAIN text.json.o # {}
  THEN {}
  ELSE { [text EXCEPT !.json.o.requiredSigners =
                         Num(Len(text.json.o.extendedPublicKeys.a) + 1)],
         [t |-> "string",
          json |-> Obj([k \in DOMAIN text.json.o \ {"index"} |->
                          text.json.o[k]])] }

\* Braid.fromJSON(string) on the snapshot just written, or an edited one
FromJSON ==
  /\ last.op = "toJSON"
  /\ \E string \in {last.value} \cup EditedSnapshots(last.value) :
       LET r == BraidFromJSON(string)
       IN /\ braid' = IF r.ok THEN [made |-> TRUE, o |-> r.obj] ELSE braid
          /\ last' = [op |-> "fromJSON", input |-> string, ok |-> r.ok,
                      error |-> r.error, value |-> Undefined,
                      calls |-> <<>>, empty |-> IsEmptyOptions(JSONParse(string))]

ValidateBip32PathForBraid ==
  /\ Built
  /\ \E path \in Paths :
       last' = Result("validateBip32PathForBraid", Txt(path),
                      [ok |-> validateBip32PathForBraid(braid.o, path) = "",
                       error |-> validateBip32PathForBraid(braid.o, path),
                       value |-> Undefined,
                       calls |-> ValidationCalls(braid.o, path)], FALSE)
  /\ UNCHANGED braid

GeneratePublicKeysAtPath ==
  /\ Built
  /\ \E path \in Paths :
       last' = Result("generatePublicKeysAtPath", Txt(path),
                      generatePublicKeysAtPath(braid.o, path), FALSE)
  /\ UNCHANGED braid

GeneratePublicKeysAtIndex ==
  /\ Built
  /\ \E index \in ChildIndexes :
       last' = Result("generatePublicKeysAtIndex", Num(index),
                      generatePublicKeysAtIndex(braid.o, index), FALSE)
  /\ UNCHANGED braid

GenerateBip32DerivationByPath ==
  /\ Built
  /\ \E path \in Paths :
       last' = Result("generateBip32DerivationByPath", Txt(path),
                      generateBip32DerivationByPath(braid.o, path), FALSE)
  /\ UNCHANGED braid

GenerateBip32DerivationByIndex ==
  /\ Built
  /\ \E index \in ChildIndexes :
       last' = Result("generateBip32DerivationByIndex", Num(index),
                      generateBip32DerivationByIndex(braid.o, index), FALSE)
  /\ UNCHANGED braid

DeriveMultisigByPath ==
  /\ Built
  /\ \E path \in Paths :
       last' = Result("deriveMultisigByPath", Txt(path),
                      deriveMultisigByPath(braid.o, path), FALSE)
  /\ UNCHANGED braid

DeriveMultisigByIndex ==
  /\ Built
  /\ \E index \in ChildIndexes :
       last' = Result("deriveMultisigByIndex", Num(index),
                      deriveMultisigByIndex(braid.o, index), FALSE)
  /\ UNCHANGED braid

Next ==
  \/ NewBraid
  \/ GenerateBraid
  \/ ToJSON
  \/ FromJSON
  \/ ValidateBip32PathForBraid
  \/ GeneratePublicKeysAtPath
  \/ GeneratePublicKeysAtIndex
  \/ GenerateBip32DerivationByPath
  \/ GenerateBip32DerivationByIndex
  \/ DeriveMultisigByPath
  \/ DeriveMultisigByIndex

Spec == Init /\ [][Next]_vars

(***************************************************************************)
(* Properties.                                                             *)
(***************************************************************************)
ConstructionOps == {"Braid", "generateBraid", "fromJSON"}

KeyOps == {"generatePublicKeysAtPath", "generatePublicKeysAtIndex"}

MetadataOps ==
  {"generateBip32DerivationByPath", "generateBip32DerivationByIndex"}

MultisigOps == {"deriveMultisigByPath", "deriveMultisigByIndex"}

IndexOps ==
  {"generatePublicKeysAtIndex", "generateBip32DerivationByIndex",
   "deriveMultisigByIndex"}

DerivationOps == KeyOps \cup MetadataOps \cup MultisigOps

\* The path the last derivation was made at.
LastPath ==
  IF last.op \in IndexOps THEN PathToDerive(braid.o, last.input.n)
  ELSE last.input.c

\* The last operation derived keys and returned.
Derived == last.op \in DerivationOps /\ last.ok

\* The sorted keys and the metadata records of the braid at the last path.
SortedKeys == generatePublicKeysAtPath(braid.o, LastPath).value.a

Metadata == generateBip32DerivationByPath(braid.o, LastPath).value.a

BraidXpubs == braidExtendedPublicKeys(braid.o).a

\* The child key the key service derives for the i-th xpub of the braid.
ChildKey(i) ==
  deriveChildPublicKey(Base58Of(BraidXpubs[i]), LastPath,
                       braidNetwork(braid.o))

\* The five invariants of a descriptor, and all six fields populated.
FullyValid(o) ==
  /\ DOMAIN o = BraidFields
  /\ \A f \in BraidFields : o[f].t # "undefined"
  /\ o.addressType \in MULTISIG_ADDRESS_TYPES
  /\ o.network \in NETWORKS
  /\ o.extendedPublicKeys.t = "array"
  /\ \A i \in 1..Len(o.extendedPublicKeys.a) :
       validateExtendedPublicKey(Base58Of(o.extendedPublicKeys.a[i]),
                                 o.network) = ""
  /\ o.requiredSigners.t = "number"
  /\ o.requiredSigners.n <= Len(o.extendedPublicKeys.a)
  /\ validateBIP32Index(o.index) = ""
  /\ o.sequence.t = "array"

\* C1: the metadata records of a derivation line up with the sorted public
\* keys: same length, and the pubkey of the i-th record is the i-th sorted
\* key, whatever the order of the xpubs.
C1_MetadataAlignment ==
  Derived =>
    /\ Len(Metadata) = Len(SortedKeys)
    /\ \A i \in 1..Len(SortedKeys) :
         Metadata[i].pubkey = BufferFromHex(SortedKeys[i])

\* The braid is a populated descriptor.
Populated == braid.made /\ braid.o # EmptyObject

\* The last operation validated a path, alone or ahead of a derivation.
Validating ==
  last.op \in DerivationOps \cup {"validateBip32PathForBraid"}

\* The first index segment of a syntactically valid path, as a number.
FirstIndex(path) == SegmentToNumber(RelativeSegments(path)[1])

BranchIndex == ParseInt(braidIndex(braid.o).c)

\* C2: on a syntactically valid path (bare relative, "/"-prefixed or
\* "m/"-prefixed), validation and every derivation built on it fail with
\* the branch error when the first index segment of the path differs from
\* the branch index of the braid, and do not fail on the branch check when
\* it equals the branch index.
C2_BranchEnforcement ==
  (Populated /\ Validating /\ validateBIP32Path(LastPath) = "") =>
    /\ FirstIndex(LastPath) # BranchIndex =>
         ~last.ok /\ last.error = BranchError
    /\ FirstIndex(LastPath) = BranchIndex => last.error # BranchError

\* A derivation at a bare relative path on the branch of the braid passed
\* the branch check and returned.
C2_Witness ==
  /\ Populated /\ Derived /\ last.op \notin IndexOps
  /\ ~StartsWith(LastPath, <<"m", "/">>) /\ ~StartsWith(LastPath, <<"/">>)
  /\ FirstIndex(LastPath) = BranchIndex

Orders(n) ==
  {f \in [1..n -> 1..n] : \A i, j \in 1..n : f[i] = f[j] => i = j}

\* The braid with its xpubs supplied in the order f.
Permuted(f) ==
  [braid.o EXCEPT !.extendedPublicKeys =
     Arr([i \in 1..Len(BraidXpubs) |-> BraidXpubs[f[i]]])]

\* C3: the public keys returned for a path are in non-decreasing
\* lexicographic order of their hex strings, and are the same sequence
\* for every order of the xpubs of the braid.
C3_CanonicalOrder ==
  (last.op \in KeyOps /\ last.ok) =>
    /\ \A i \in 1..(Len(last.value.a) - 1) :
         ~LexLess(last.value.a[i + 1].h, last.value.a[i].h)
    /\ \A f \in Orders(Len(BraidXpubs)) :
         generatePublicKeysAtPath(Permuted(f), LastPath).value = last.value

\* Keys were returned in an order that is not the order of the xpubs.
C3_Witness ==
  /\ last.op \in KeyOps /\ last.ok
  /\ Len(last.value.a) >= 2
  /\ last.value.a # [i \in 1..Len(BraidXpubs) |-> ChildKey(i)]

SameXpub(x, y) ==
  /\ TypeOf(x) = TypeOf(y)
  /\ Base58Of(x) = Base58Of(y)
  /\ Get(x, "path") = Get(y, "path")
  /\ Get(x, "rootFingerprint") = Get(y, "rootFingerprint")

\* C5: for a valid braid d, Braid.fromJSON(braidConfig(d)) returns a braid
\* with the same network, addressType, extendedPublicKeys, requiredSigners
\* and index, hence the same sorted keys and metadata at every path; the
\* JSON object has exactly the five keys.
C5_RoundTrip ==
  (last.op = "toJSON" /\ FullyValid(braid.o)) =>
    LET r == BraidFromJSON(last.value)
    IN /\ last.value = braidConfig(braid.o)
       /\ DOMAIN JSONParse(last.value).o = ConfigKeys
       /\ r.ok
       /\ \A f \in {"network", "addressType", "requiredSigners", "index"} :
            Field(r.obj, f) = braid.o[f]
       /\ Field(r.obj, "extendedPublicKeys").t = "array"
       /\ Len(Field(r.obj, "extendedPublicKeys").a) = Len(BraidXpubs)
       /\ \A i \in 1..Len(BraidXpubs) :
            SameXpub(Field(r.obj, "extendedPublicKeys").a[i], BraidXpubs[i])
       /\ \A path \in Paths :
            /\ generatePublicKeysAtPath(r.obj, path)
                 = generatePublicKeysAtPath(braid.o, path)
            /\ generateBip32DerivationByPath(r.obj, path)
                 = generateBip32DerivationByPath(braid.o, path)

\* A braid with a struct whose root fingerprint is undefined was rebuilt
\* from its own snapshot, which left the fingerprint out.
C5_Witness ==
  /\ last.op = "fromJSON" /\ last.ok /\ Populated
  /\ last.input = braidConfig(braid.o)
  /\ \E i \in 1..Len(BraidXpubs) :
       /\ Base58Of(BraidXpubs[i]) = Str("tpubB")
       /\ "rootFingerprint" \notin DOMAIN BraidXpubs[i].o

C7_OneRecordPerXpub ==
  Derived =>
    /\ Len(SortedKeys) = Len(BraidXpubs)
    /\ Len(Metadata) = Len(BraidXpubs)
    /\ Len(SortedKeys) >= braid.o.requiredSigners.n

\* The key service reports a root fingerprint for the xpub.
FingerprintKnown(xpub) ==
  extendedPublicKeyRootFingerprint(xpub).t = "string"

ZeroFingerprint == Buf(<<0, 0, 0, 0>>)

\* The metadata record of the i-th xpub, when no later xpub derives the
\* same key.
RecordOf(i) ==
  CHOOSE rec \in {Metadata[m] : m \in 1..Len(Metadata)} :
    rec.pubkey = BufferFromHex(ChildKey(i))

Recorded == {i \in 1..Len(BraidXpubs) :
               \A j \in (i + 1)..Len(BraidXpubs) : ChildKey(j) # ChildKey(i)}

\* C8, as stated: masterFingerprint is the root fingerprint of the xpub
\* when one is known, and is 00000000 exactly when none is known.
C8_FingerprintFallback ==
  Derived =>
    \A i \in Recorded :
      /\ FingerprintKnown(BraidXpubs[i]) =>
           RecordOf(i).masterFingerprint
             = BufferFromHex(Get(BraidXpubs[i], "rootFingerprint"))
      /\ RecordOf(i).masterFingerprint = ZeroFingerprint
           <=> ~FingerprintKnown(BraidXpubs[i])

\* C8, amended: masterFingerprint is the root fingerprint of the xpub
\* when one is known, and is 00000000 when none is known.
C8_FingerprintFallbackAmended ==
  Derived =>
    \A i \in Recorded :
      /\ FingerprintKnown(BraidXpubs[i]) =>
           RecordOf(i).masterFingerprint
             = BufferFromHex(Get(BraidXpubs[i], "rootFingerprint"))
      /\ ~FingerprintKnown(BraidXpubs[i]) =>
           RecordOf(i).masterFingerprint = ZeroFingerprint

\* A derivation on a braid with an xpub of known fingerprint and an xpub
\* of unknown fingerprint returned.
C8_Witness ==
  /\ Derived
  /\ \E i \in Recorded : FingerprintKnown(BraidXpubs[i])
  /\ \E i \in Recorded : ~FingerprintKnown(BraidXpubs[i])

\* The recorded path rec is base, one "/", and the suffix.
JoinsTo(rec, base, suffix) == rec = Txt(base \o <<"/">> \o suffix)

\* The part of a recorded path before "/" and the suffix.
RecordedBase(rec, suffix) ==
  SubSeq(rec.c, 1, Len(rec.c) - Len(suffix) - 1)

\* path with an optional leading "m/" removed
WithoutMarker(path) ==
  IF Len(path) >= 2 /\ path[1] = "m" /\ path[2] = "/"
  THEN [i \in 1..(Len(path) - 2) |-> path[i + 2]] ELSE path

\* C9: for every xpub handle, plain string or struct, the path recorded
\* in its metadata is the base path of the xpub, one "/", then the
\* derivation path with an optional leading "m/" removed; by index k that
\* is basePath/branchIndex/k.
C9_RecordedFullPath ==
  Derived =>
    \A i \in Recorded :
      LET rec == RecordOf(i).path
          suffix == WithoutMarker(LastPath)
          base == RecordedBase(rec, suffix)
      IN /\ Len(rec.c) > Len(suffix) + 1
         /\ JoinsTo(rec, base, suffix)
         /\ validateBIP32Path(base) = ""
         /\ Get(BraidXpubs[i], "path").t = "string" =>
              base = Get(BraidXpubs[i], "path").c
         /\ last.op \in IndexOps =>
              suffix = braid.o.index.c \o <<"/">> \o IntToChars(last.input.n)

\* The calls to the Key-Derivation and the Multisig-Assembly services.
ServiceCalls ==
  {"deriveChildPublicKey", "extendedPublicKeyRootFingerprint",
   "generateMultisigFromPublicKeys"}

\* C10: in every derivation, path validation has returned before the
\* first call to the key service or the multisig service; when validation
\* fails there is no such call and no result, and the braid is unchanged.
C10_ValidationPrecedesDerivation ==
  [][ (last'.op \in DerivationOps /\ last' # last) =>
        /\ braid' = braid
        /\ \A i \in 1..Len(last'.calls) :
             last'.calls[i] \in ServiceCalls =>
               \E j \in 1..(i - 1) : last'.calls[j] = ValidatorReturned
        /\ validateBip32PathForBraid(braid.o,
             IF last'.op \in IndexOps
             THEN PathToDerive(braid.o, last'.input.n)
             ELSE last'.input.c) # "" =>
               /\ ~last'.ok
               /\ last'.value = Undefined
               /\ \A i \in 1..Len(last'.calls) :
                    last'.calls[i] \notin ServiceCalls ]_vars

\* A multisig derivation on a braid with xpubs failed on the branch check.
C10_Witness ==
  /\ Populated /\ last.op \in MultisigOps
  /\ ~last.ok /\ last.error = BranchError
  /\ Len(BraidXpubs) >= 1

====
